---- MODULE Spec2Model ----
(***************************************************************************)
(* Model of sequence_quality_checker.py: a straight-line script that loads *)
(* a CSV of (id, sequence) records, reports length statistics, computes    *)
(* quality masks, normalises the sequences, renames duplicate ids at an    *)
(* interactive prompt, writes the valid cleaned records and exits.         *)
(*                                                                         *)
(* A string is a sequence of one-character strings.  A missing value (NaN) *)
(* is the one-element sequence <<"NaN">>, which is no string of Chars.     *)
(* Row positions are 1-based here and 0-based in the script; nothing the   *)
(* model keeps depends on the offset (it only shows in the prompt text).   *)
(***************************************************************************)
EXTENDS Integers, Sequences, FiniteSets

VARIABLES
    fileState,            \* os.path.exists / os.path.getsize of csv_path
    csv,                  \* the rows the input file holds
    strict,               \* args.strict
    pc,                   \* position of the script
    df,                   \* the table
    lengths, long_mask,   \* Reporter
    dup_mask, dup_count, null_or_empty, null_count,
    leading_trailing_ws, lowercase_mask, has_U, invalid_mask,
    seq_clean, still_invalid,
    used_ids, groups, gi, mi,   \* resolver: used ids, groupby indices, loop positions
    line, new_id,         \* the line last read by input(), and it stripped
    n_accepted,           \* history: inputs accepted so far
    resolution,           \* "none", "RESOLVED" or "FAILED"
    written, outFile,     \* whether to_csv ran in this run, and the rows it wrote
    exitCode, outcome     \* process exit status and how the run ended

vars == <<fileState, csv, strict, pc, df, lengths, long_mask, dup_mask, dup_count,
          null_or_empty, null_count, leading_trailing_ws, lowercase_mask, has_U,
          invalid_mask, seq_clean, still_invalid, used_ids, groups, gi, mi, line,
          new_id, n_accepted, resolution, written, outFile, exitCode, outcome>>

reportVars == <<lengths, long_mask>>
qcVars == <<dup_mask, dup_count, null_or_empty, null_count, leading_trailing_ws,
            lowercase_mask, has_U, invalid_mask>>
cleanVars == <<seq_clean, still_invalid>>
loopVars == <<used_ids, groups, gi, mi>>
promptVars == <<line, new_id, n_accepted>>
inputVars == <<fileState, csv, strict>>
endVars == <<exitCode, outcome>>

(***************************************************************************)
(* Bounds                                                                  *)
(***************************************************************************)
MaxRows == 3
MaxLen == 3

(***************************************************************************)
(* Characters and strings                                                  *)
(***************************************************************************)
NaN == <<"NaN">>
\* the characters the generated sequence texts are written with
Chars == {"A", "T", "U", "a", "t", "u", "X", " ", "\n"}
Whitespace == {" ", "\n", "\t", "\r"}
DNA == {"A", "C", "G", "T"}
LowerLetters == <<"a", "c", "g", "t", "u", "n", "x">>
UpperLetters == <<"A", "C", "G", "T", "U", "N", "X">>

Strings(n) == UNION {[1..k -> Chars] : k \in 0..n}

isna(s) == s = NaN

\* Series.astype(str): a missing value becomes the text "nan"
astype_str(s) == IF isna(s) THEN <<"n", "a", "n">> ELSE s

UpperChar(c) ==
    IF \E i \in 1..Len(LowerLetters) : LowerLetters[i] = c
    THEN UpperLetters[CHOOSE i \in 1..Len(LowerLetters) : LowerLetters[i] = c]
    ELSE c

\* str.upper()
upper(s) == [i \in 1..Len(s) |-> UpperChar(s[i])]

\* str.strip(): drop the leading and the trailing run of whitespace
strip(s) ==
    LET inner == {i \in 1..Len(s) : s[i] \notin Whitespace}
    IN  IF inner = {} THEN <<>>
        ELSE LET lo == CHOOSE i \in inner : \A j \in inner : i <= j
                 hi == CHOOSE i \in inner : \A j \in inner : j <= i
             IN  SubSeq(s, lo, hi)

\* str.replace("U", "T")
replace_U_T(s) == [i \in 1..Len(s) |-> IF s[i] = "U" THEN "T" ELSE s[i]]

\* re.sub(r"[^ACGT]", "", s)
sub_nonACGT(s) == SelectSeq(s, LAMBDA c : c \in DNA)

clean_seq_NoRnaReplace(s) ==
    IF isna(s) THEN s ELSE sub_nonACGT(upper(strip(s)))

clean_seq(s) ==
    IF isna(s) THEN s
    ELSE sub_nonACGT(replace_U_T(upper(strip(s))))

\* re.match(r"^[ACGT]+$", s): one or more of A/C/G/T from the start, then the
\* end of the string or a single newline that ends the string
match_invalid_regex(s) ==
    LET run == {k \in 1..Len(s) : \A i \in 1..k : s[i] \in DNA}
    IN  \/ Len(s) \in run
        \/ Len(s) >= 2 /\ (Len(s) - 1) \in run /\ s[Len(s)] = "\n"

\* re.match(r"^\s|\s$", s): re.match tries position 0 only, so both
\* alternatives need s[0] to be whitespace
match_ws_regex(s) ==
    \/ Len(s) >= 1 /\ s[1] \in Whitespace
    \/ /\ Len(s) >= 1 /\ s[1] \in Whitespace
       /\ \/ Len(s) = 1
          \/ Len(s) = 2 /\ s[2] = "\n"

\* str.contains(r"[acgt]", regex=True)
contains_lower_acgt(s) == \E i \in 1..Len(s) : s[i] \in {"a", "c", "g", "t"}

\* str.contains("U", regex=False)
contains_U(s) == \E i \in 1..Len(s) : s[i] = "U"

(***************************************************************************)
(* Column operations                                                       *)
(***************************************************************************)
Idx(d) == [i \in 1..Len(d) |-> i]
CountTrue(m) == Cardinality({i \in 1..Len(m) : m[i]})

RECURSIVE Sum(_)
Sum(xs) == IF xs = <<>> THEN 0 ELSE Head(xs) + Sum(Tail(xs))

\* Series.duplicated(keep=False) on the id column
duplicated(d) ==
    [i \in 1..Len(d) |-> \E j \in 1..Len(d) : j # i /\ d[j].id = d[i].id]

\* df.groupby("id", sort=False).indices: one list of positions per id, the ids
\* in first-seen order, the positions ascending
groupby_indices(d) ==
    LET firsts == SelectSeq(Idx(d), LAMBDA i : \A j \in 1..(i - 1) : d[j].id # d[i].id)
    IN  [k \in 1..Len(firsts) |->
            SelectSeq(Idx(d), LAMBDA i : d[i].id = d[firsts[k]].id)]

invalid_of_NoUpper(s) == ~match_invalid_regex(astype_str(s))

\* ~astype(str).str.upper().str.match(invalid_regex)
invalid_of(s) == ~match_invalid_regex(upper(astype_str(s)))

still_invalid_of_EmptyOk(c) == ~(c = <<>> \/ match_invalid_regex(astype_str(c)))

\* ~seq_clean.astype(str).str.match(invalid_regex)
still_invalid_of(c) == ~match_invalid_regex(astype_str(c))

qc_error_found_NoDup(dc, nc, ic) == nc > 0 \/ ic > 0

\* any([dup_count > 0, null_count > 0, invalid_mask.sum() > 0])
qc_error_found(dc, nc, ic) == dc > 0 \/ nc > 0 \/ ic > 0

read_new_id_NoStrip(ln) == ln

\* input(...).strip()
read_new_id(ln) == strip(ln)

validate_NoUsedCheck(nid, used) == IF nid = <<>> THEN "empty" ELSE "ok"

validate_NeverAccepts(nid, used) == IF nid = <<>> THEN "empty" ELSE "exists"

\* the two checks of the prompt loop
validate(nid, used) ==
    IF nid = <<>> THEN "empty"
    ELSE IF nid \in used THEN "exists"
    ELSE "ok"

assign_id_First(d, idxs, m, nid) == [d EXCEPT ![idxs[1]].id = nid]

\* df.at[idx, "id"] = new_id, idx the m-th position of the group
assign_id(d, idxs, m, nid) == [d EXCEPT ![idxs[m]].id = nid]

\* pd.read_csv on one field of the sequence column: the empty field is a missing
\* value (no other default NA spelling can be written with Chars)
parse_field(s) == IF s = <<>> THEN NaN ELSE s

\* pd.read_csv(csv_path)
read_csv(rows) ==
    [i \in 1..Len(rows) |-> [id |-> rows[i].id, sequence |-> parse_field(rows[i].sequence)]]

\* df.loc[~still_invalid, ["id"]] with sequence = seq_clean[~still_invalid]
project_out(d, sc, si) ==
    LET keep == SelectSeq(Idx(d), LAMBDA i : ~si[i])
    IN  [k \in 1..Len(keep) |-> [id |-> d[keep[k]].id, sequence |-> sc[keep[k]]]]

(***************************************************************************)
(* Inputs                                                                  *)
(***************************************************************************)
Digits == <<"1", "2", "3", "4", "5", "6", "7", "8", "9">>
IdOf(k) == <<"s", Digits[k]>>
IdPool == {IdOf(1), IdOf(2)}
\* field texts of the sequence column; the empty field is read as missing
SeqPool == {<<"a", "c", "g", "t">>, <<"A", "C", "G", "U">>, <<"X", "Y", "Z">>, <<>>}
Rows == [id : IdPool, sequence : SeqPool]
PoolTables == UNION {[1..n -> Rows] : n \in 0..MaxRows}
\* tables for the resolver alone: every id pattern, one valid and one missing sequence
IdTables ==
    UNION {[1..n -> [id : IdPool, sequence : {<<"a", "c", "g", "t">>, <<>>}]] : n \in 0..MaxRows}
StringTables == {<<[id |-> IdOf(1), sequence |-> s]>> : s \in Strings(MaxLen)}

\* what the operator may type: nothing, a blank, an id (at least MaxRows - 1 of
\* them are not in the table), and an id with blanks around it
InputLines ==
    {<<>>, <<" ">>} \cup {IdOf(k) : k \in 1..MaxRows}
        \cup {<<" ">> \o IdOf(MaxRows) \o <<" ", " ">>}

InitWith(tables) ==
    /\ fileState \in {"missing", "empty", "ok"}
    /\ csv \in (IF fileState = "ok" THEN tables ELSE {<<>>})
    /\ strict \in BOOLEAN
    /\ pc = "load"
    /\ df = <<>>
    /\ lengths = <<>> /\ long_mask = <<>>
    /\ dup_mask = <<>> /\ dup_count = 0
    /\ null_or_empty = <<>> /\ null_count = 0
    /\ leading_trailing_ws = <<>> /\ lowercase_mask = <<>>
    /\ has_U = <<>> /\ invalid_mask = <<>>
    /\ seq_clean = <<>> /\ still_invalid = <<>>
    /\ used_ids = {} /\ groups = <<>> /\ gi = 1 /\ mi = 1
    /\ line = <<>> /\ new_id = <<>> /\ n_accepted = 0
    /\ resolution = "none"
    /\ written = FALSE /\ outFile = <<>>
    /\ exitCode = -1 /\ outcome = "running"

Init == InitWith(PoolTables \cup StringTables)

Exit(code, how) ==
    /\ pc' = "exited"
    /\ exitCode' = code
    /\ outcome' = how

(***************************************************************************)
(* The script, stage by stage                                              *)
(***************************************************************************)

\* Loader: existence and size checks, then read_csv
Load ==
    /\ pc = "load"
    /\ IF fileState = "missing"
       THEN Exit(1, "InputMissing") /\ UNCHANGED df
       ELSE IF fileState = "empty"
       THEN Exit(1, "InputEmpty") /\ UNCHANGED df
       ELSE /\ df' = read_csv(csv)
            /\ pc' = "report"
            /\ UNCHANGED endVars
    /\ UNCHANGED <<inputVars, reportVars, qcVars, cleanVars, loopVars, promptVars,
                   resolution, written, outFile>>

\* Reporter: lengths (missing counts as empty) and the longer-than-mean mask;
\* l > mean is compared as l * n > sum
Report ==
    /\ pc = "report"
    /\ lengths' = [i \in 1..Len(df) |->
                      IF isna(df[i].sequence) THEN 0 ELSE Len(df[i].sequence)]
    /\ long_mask' = [i \in 1..Len(df) |-> lengths'[i] * Len(df) > Sum(lengths')]
    /\ pc' = "qc"
    /\ UNCHANGED <<inputVars, df, qcVars, cleanVars, loopVars, promptVars,
                   resolution, written, outFile, endVars>>

\* Quality Checker: the masks and their counts
QualityChecks ==
    /\ pc = "qc"
    /\ dup_mask' = duplicated(df)
    /\ dup_count' = CountTrue(dup_mask')
    /\ null_or_empty' = [i \in 1..Len(df) |->
            isna(df[i].sequence) \/ strip(astype_str(df[i].sequence)) = <<>>]
    /\ null_count' = CountTrue(null_or_empty')
    /\ leading_trailing_ws' = [i \in 1..Len(df) |-> match_ws_regex(astype_str(df[i].sequence))]
    /\ lowercase_mask' = [i \in 1..Len(df) |-> contains_lower_acgt(astype_str(df[i].sequence))]
    /\ has_U' = [i \in 1..Len(df) |-> contains_U(astype_str(df[i].sequence))]
    /\ invalid_mask' = [i \in 1..Len(df) |-> invalid_of(df[i].sequence)]
    /\ pc' = "normalize"
    /\ UNCHANGED <<inputVars, df, reportVars, cleanVars, loopVars, promptVars,
                   resolution, written, outFile, endVars>>

\* Normalizer: the cleaned column and the still-invalid mask
Normalize ==
    /\ pc = "normalize"
    /\ seq_clean' = [i \in 1..Len(df) |-> clean_seq(df[i].sequence)]
    /\ still_invalid' = [i \in 1..Len(df) |-> still_invalid_of(seq_clean'[i])]
    /\ pc' = "resolve"
    /\ UNCHANGED <<inputVars, df, reportVars, qcVars, loopVars, promptVars,
                   resolution, written, outFile, endVars>>

\* if dup_count: build used_ids and the groups, else go straight to the save
ResolveBegin ==
    /\ pc = "resolve"
    /\ IF dup_count > 0
       THEN /\ used_ids' = {astype_str(df[i].id) : i \in 1..Len(df)}
            /\ groups' = groupby_indices(df)
            /\ gi' = 1
            /\ pc' = "SCANNING_GROUPS"
            /\ UNCHANGED mi
       ELSE /\ pc' = "save"
            /\ UNCHANGED loopVars
    /\ UNCHANGED <<inputVars, df, reportVars, qcVars, cleanVars, promptVars,
                   resolution, written, outFile, endVars>>

\* head of the for loop over the groups: skip a group of one, start prompting
\* at the second member of a larger one, leave the loop after the last group
ScanGroups ==
    /\ pc = "SCANNING_GROUPS"
    /\ IF gi > Len(groups)
       THEN pc' = "postcheck" /\ UNCHANGED <<gi, mi>>
       ELSE IF Len(groups[gi]) <= 1
       THEN gi' = gi + 1 /\ UNCHANGED <<pc, mi>>
       ELSE mi' = 2 /\ pc' = "PROMPTING" /\ UNCHANGED gi
    /\ UNCHANGED <<inputVars, df, reportVars, qcVars, cleanVars, used_ids, groups,
                   promptVars, resolution, written, outFile, endVars>>

\* one pass of the while loop that ends in a continue
PromptReject(ln) ==
    /\ pc = "PROMPTING"
    /\ validate(read_new_id(ln), used_ids) # "ok"
    /\ line' = ln
    /\ new_id' = read_new_id(ln)
    /\ UNCHANGED <<inputVars, pc, df, reportVars, qcVars, cleanVars, loopVars,
                   n_accepted, resolution, written, outFile, endVars>>

\* one pass of the while loop that ends in the break, and the step of the
\* inner for loop that follows it
PromptAccept(ln) ==
    /\ pc = "PROMPTING"
    /\ validate(read_new_id(ln), used_ids) = "ok"
    /\ line' = ln
    /\ new_id' = read_new_id(ln)
    /\ df' = assign_id(df, groups[gi], mi, new_id')
    /\ used_ids' = used_ids \cup {new_id'}
    /\ n_accepted' = n_accepted + 1
    /\ IF mi < Len(groups[gi])
       THEN mi' = mi + 1 /\ UNCHANGED <<pc, gi>>
       ELSE gi' = gi + 1 /\ pc' = "SCANNING_GROUPS" /\ UNCHANGED mi
    /\ UNCHANGED <<inputVars, reportVars, qcVars, cleanVars, groups,
                   resolution, written, outFile, endVars>>

\* input() at end of input: EOFError is not caught, the interpreter exits 1
PromptEOF ==
    /\ pc = "PROMPTING"
    /\ Exit(1, "EOFError")
    /\ UNCHANGED <<inputVars, df, reportVars, qcVars, cleanVars, loopVars, promptVars,
                   resolution, written, outFile>>

\* input() interrupted: KeyboardInterrupt is not caught, the process dies of
\* SIGINT (status 130)
PromptInterrupt ==
    /\ pc = "PROMPTING"
    /\ Exit(130, "KeyboardInterrupt")
    /\ UNCHANGED <<inputVars, df, reportVars, qcVars, cleanVars, loopVars, promptVars,
                   resolution, written, outFile>>

\* the defensive re-check after the loop
PostCheck ==
    /\ pc = "postcheck"
    /\ IF \E i \in 1..Len(df) : duplicated(df)[i]
       THEN /\ resolution' = "FAILED"
            /\ Exit(1, "UnresolvedDuplicates")
       ELSE /\ resolution' = "RESOLVED"
            /\ pc' = "save"
            /\ UNCHANGED endVars
    /\ UNCHANGED <<inputVars, df, reportVars, qcVars, cleanVars, loopVars, promptVars,
                   written, outFile>>

Save_GatedByStrict ==
    /\ pc = "save"
    /\ written' = ~(strict /\ qc_error_found(dup_count, null_count, CountTrue(invalid_mask)))
    /\ outFile' = IF written' THEN project_out(df, seq_clean, still_invalid) ELSE outFile
    /\ pc' = "strict"
    /\ UNCHANGED <<inputVars, df, reportVars, qcVars, cleanVars, loopVars, promptVars,
                   resolution, endVars>>

\* Writer: df_out.to_csv(out_path)
Save ==
    /\ pc = "save"
    /\ outFile' = project_out(df, seq_clean, still_invalid)
    /\ written' = TRUE
    /\ pc' = "strict"
    /\ UNCHANGED <<inputVars, df, reportVars, qcVars, cleanVars, loopVars, promptVars,
                   resolution, endVars>>

\* the strict-mode exit, or the end of the script
StrictExit ==
    /\ pc = "strict"
    /\ IF qc_error_found(dup_count, null_count, CountTrue(invalid_mask)) /\ strict
       THEN Exit(1, "QCStrictViolation")
       ELSE Exit(0, "Completed")
    /\ UNCHANGED <<inputVars, df, reportVars, qcVars, cleanVars, loopVars, promptVars,
                   resolution, written, outFile>>

Reject == \E ln \in InputLines : PromptReject(ln)
Accept == \E ln \in InputLines : PromptAccept(ln)

Next ==
    \/ Load
    \/ Report
    \/ QualityChecks
    \/ Normalize
    \/ ResolveBegin
    \/ ScanGroups
    \/ Reject
    \/ Accept
    \/ PromptEOF
    \/ PromptInterrupt
    \/ PostCheck
    \/ Save
    \/ StrictExit

Spec == Init /\ [][Next]_vars

\* The script runs on by itself, and the operator in the end types an id
\* that is accepted; the tables are the id tables
LiveSpec ==
    /\ InitWith(IdTables)
    /\ [][Next]_vars
    /\ WF_vars(Load) /\ WF_vars(Report) /\ WF_vars(QualityChecks)
    /\ WF_vars(Normalize) /\ WF_vars(ResolveBegin) /\ WF_vars(ScanGroups)
    /\ WF_vars(PostCheck) /\ WF_vars(Save) /\ WF_vars(StrictExit)
    /\ WF_vars(Accept)

(***************************************************************************)
(* Vocabulary of the properties                                            *)
(***************************************************************************)
Loaded == fileState = "ok" /\ pc # "load"
QCDone == Loaded /\ pc \notin {"report", "qc"}
Cleaned == QCDone /\ pc # "normalize"
AbortedAtPrompt == outcome \in {"EOFError", "KeyboardInterrupt"}
\* the for loop over the groups has run to its end (or was not needed)
PassCompleted ==
    Cleaned /\ pc \notin {"resolve", "SCANNING_GROUPS", "PROMPTING"} /\ ~AbortedAtPrompt
Distinct(d) == \A i, j \in 1..Len(d) : i # j => d[i].id # d[j].id
\* ids of the input table and ids assigned since
UsedSoFar == {csv[i].id : i \in 1..Len(csv)} \cup {df[i].id : i \in 1..Len(df)}
FirstOccurrence(i) == \A j \in 1..(i - 1) : csv[j].id # csv[i].id
NonFirstMembers == Cardinality({i \in 1..Len(csv) : ~FirstOccurrence(i)})
Valid(c) == ~isna(c) /\ c # <<>> /\ \A k \in 1..Len(c) : c[k] \in DNA
IsSpace(c) == c \in Whitespace
Scenario ==
    << [id |-> IdOf(1), sequence |-> <<"a", "c", "g", "t">>],
       [id |-> IdOf(1), sequence |-> <<"A", "C", "G", "U">>],
       [id |-> IdOf(2), sequence |-> <<"X", "Y", "Z">>] >>

\* C1: once the resolver has gone through all duplicate groups the ids of the
\* table are pairwise distinct, the re-check never fails, and the rows written
\* never hold two equal ids.
C1_IdsDistinctAfterResolution ==
    /\ PassCompleted => Distinct(df)
    /\ resolution # "FAILED"
    /\ outcome # "UnresolvedDuplicates"
    /\ written => Distinct(outFile)

C1_Witness ==
    /\ resolution = "RESOLVED" /\ n_accepted = 2
    /\ written /\ Len(outFile) = 3 /\ pc = "exited"

\* C2: at a prompt the input is accepted iff it is non-empty after trimming and
\* not among the ids used so far; a rejection changes neither the table nor the
\* used set and stays at the same prompt; an acceptance sets exactly the
\* prompted record's id to the trimmed input and adds it to the used set.
C2_PromptAcceptsIffFreshNonEmpty ==
    [][(pc = "PROMPTING" /\ pc' # "exited") =>
        LET t == strip(line')
            ok == t # <<>> /\ t \notin UsedSoFar
            idx == groups[gi][mi]
        IN  IF ok
            THEN /\ df' = [df EXCEPT ![idx].id = t]
                 /\ used_ids' = used_ids \cup {t}
                 /\ UsedSoFar' = UsedSoFar \cup {t}
                 /\ n_accepted' = n_accepted + 1
            ELSE /\ df' = df
                 /\ used_ids' = used_ids
                 /\ n_accepted' = n_accepted
                 /\ pc' = "PROMPTING" /\ gi' = gi /\ mi' = mi]_vars

C2_Witness ==
    /\ pc = "PROMPTING" /\ n_accepted = 1
    /\ line = <<" ">> /\ new_id = <<>>
    /\ \E i \in 1..Len(df) : df[i].id # csv[i].id /\ df[i].id \in used_ids

StrictDefect == strict /\ (dup_count > 0 \/ null_count > 0 \/ CountTrue(invalid_mask) > 0)

\* C3 as stated: exit code 1 exactly when the input is missing or empty,
\* duplicates remain after the interactive pass, or --strict was given and one
\* of the three counts was positive; every other finished run exits 0.
C3_AsStated ==
    pc = "exited" =>
        /\ exitCode = 1 <=>
              \/ fileState \in {"missing", "empty"}
              \/ PassCompleted /\ ~Distinct(df)
              \/ StrictDefect
        /\ exitCode # 1 /\ PassCompleted => exitCode = 0

\* C3, amended: exit code 1 exactly when the input is missing or empty, end of
\* input is hit at a resolver prompt, or, in a run not aborted at a prompt,
\* duplicates remain after the pass or --strict was given and one of the three
\* counts of the Quality Checker was positive; an interrupt at a prompt ends
\* the run with status 130; every other run exits 0.
C3_ExitCode ==
    pc = "exited" =>
        /\ exitCode = 1 <=>
              \/ fileState \in {"missing", "empty"}
              \/ outcome = "EOFError"
              \/ PassCompleted /\ (~Distinct(df) \/ StrictDefect)
        /\ outcome = "KeyboardInterrupt" => exitCode = 130
        /\ exitCode # 1 /\ outcome # "KeyboardInterrupt" => exitCode = 0

C3_Witness ==
    /\ pc = "exited" /\ exitCode = 1 /\ strict
    /\ dup_count > 0 /\ null_count = 0 /\ CountTrue(invalid_mask) = 0
    /\ PassCompleted

\* C4: a run that ends in the strict-mode violation has written the output
\* file before; a run that ends because the input is missing or empty,
\* duplicates remain, or the prompt hits end of input or an interrupt never
\* writes it.
C4_WriteBeforeStrictExitOnly ==
    /\ pc = "exited" /\ Loaded /\ PassCompleted /\ exitCode = 1 /\ StrictDefect => written
    /\ outcome = "QCStrictViolation" => written
    /\ fileState \in {"missing", "empty"} => ~written
    /\ outcome \in {"InputMissing", "InputEmpty", "UnresolvedDuplicates",
                    "EOFError", "KeyboardInterrupt"} => ~written

C4_Witness ==
    /\ outcome = "QCStrictViolation" /\ exitCode = 1 /\ written
    /\ Len(outFile) >= 1 /\ n_accepted >= 1

RECURSIVE ExpectedRows(_, _)
ExpectedRows(d, i) ==
    IF i > Len(d) THEN <<>>
    ELSE (IF Valid(clean_seq(d[i].sequence))
          THEN <<[id |-> d[i].id, sequence |-> clean_seq(d[i].sequence)]>>
          ELSE <<>>) \o ExpectedRows(d, i + 1)

Excluded(r) ==
    \/ isna(r.sequence)
    \/ \A k \in 1..Len(r.sequence) : IsSpace(r.sequence[k])
    \/ clean_seq(r.sequence) = <<>>

\* C5: the rows written are exactly the records whose cleaned sequence is
\* non-empty and only A/C/G/T, in table order, as (id after resolution, cleaned
\* sequence); the records left out are those with a null or whitespace-only
\* sequence or one that cleans to the empty string, and no others.
C5_WrittenRowsAreValidCleaned ==
    written =>
        /\ outFile = ExpectedRows(df, 1)
        /\ Len(outFile) = Cardinality({i \in 1..Len(df) : ~Excluded(df[i])})

C5_Witness ==
    /\ written /\ n_accepted >= 1
    /\ Len(outFile) = 1 /\ Len(df) = 3
    /\ \E i \in 1..Len(df) : isna(df[i].sequence)
    /\ \E i \in 1..Len(df) : ~isna(df[i].sequence) /\ clean_seq(df[i].sequence) = <<>>

\* C6 as stated: on the scenario table the duplicate count is 2, the RNA-marker
\* count 1, the invalid-alphabet count 1 (the XYZ row alone).
C6_AsStated ==
    QCDone /\ csv = Scenario =>
        /\ dup_count = 2 /\ dup_mask = <<TRUE, TRUE, FALSE>>
        /\ CountTrue(has_U) = 1
        /\ CountTrue(invalid_mask) = 1 /\ invalid_mask = <<FALSE, FALSE, TRUE>>

\* C6, amended: on the scenario table the duplicate count is 2 (both s1 rows),
\* the RNA-marker count 1, the invalid-alphabet count 2 (the ACGU row and the
\* XYZ row).
C6_ScenarioCounts ==
    QCDone /\ csv = Scenario =>
        /\ dup_count = 2 /\ dup_mask = <<TRUE, TRUE, FALSE>>
        /\ CountTrue(has_U) = 1 /\ has_U = <<FALSE, TRUE, FALSE>>
        /\ CountTrue(invalid_mask) = 2 /\ invalid_mask = <<FALSE, TRUE, TRUE>>

C6_Witness == QCDone /\ csv = Scenario /\ pc = "normalize" /\ dup_count = 2

\* C7 as stated: the leading/trailing-whitespace mask of a record is true iff
\* its raw sequence string starts or ends with a whitespace character.
C7_AsStated ==
    QCDone =>
        \A i \in 1..Len(df) :
            ~isna(df[i].sequence) =>
                LET s == df[i].sequence
                IN  leading_trailing_ws[i] <=>
                        Len(s) >= 1 /\ (IsSpace(s[1]) \/ IsSpace(s[Len(s)]))

LettersACGTU == {"A", "C", "G", "T", "U", "a", "c", "g", "t", "u"}
\* letters A/C/G/T/U in either case, at least one, whitespace around them allowed
LettersWithFlanks(s) ==
    /\ ~isna(s)
    /\ strip(s) # <<>>
    /\ \A k \in 1..Len(strip(s)) : strip(s)[k] \in LettersACGTU

\* C8: clean_seq of such a sequence is non-empty and only A/C/G/T, and cleaning
\* the cleaned sequence again gives it back.
C8_CleanValidAndIdempotent ==
    Cleaned =>
        \A i \in 1..Len(df) :
            LettersWithFlanks(df[i].sequence) =>
                /\ Valid(seq_clean[i])
                /\ ~still_invalid[i]
                /\ clean_seq(seq_clean[i]) = seq_clean[i]

C8_Witness ==
    /\ Cleaned /\ Len(df) = 1
    /\ df[1].sequence = <<" ", "u", "\n">>
    /\ seq_clean[1] = <<"T">>

\* C9: the resolver changes only the id of records that are a second or later
\* occurrence of their id: first occurrences and unique ids keep their id, no
\* sequence changes, no record is added or removed, the order stays.
C9_ResolverFrame ==
    Loaded =>
        /\ Len(df) = Len(csv)
        /\ \A i \in 1..Len(df) :
              /\ df[i].sequence = parse_field(csv[i].sequence)
              /\ FirstOccurrence(i) => df[i].id = csv[i].id

C9_Witness ==
    /\ resolution = "RESOLVED" /\ n_accepted = 1 /\ Len(df) = 3
    /\ df[1].id = csv[1].id /\ df[2].id # csv[2].id /\ df[3].id = csv[3].id
    /\ csv[3].id # csv[1].id

\* C10: there is no retry limit; a step from a prompt that accepts nothing and
\* is no abort stays at the same prompt, the prompt is left only by an
\* acceptance or an abort, and when the operator in the end supplies an
\* accepted value at every prompt and input never ends, the resolver reaches
\* RESOLVED with one accepted input per non-first member of a duplicate group.
C10_ResolverProgress ==
    /\ [][(pc = "PROMPTING" /\ n_accepted' = n_accepted /\ pc' # "exited") =>
            (pc' = "PROMPTING" /\ gi' = gi /\ mi' = mi /\ df' = df)]_vars
    /\ [][(pc = "PROMPTING" /\ pc' # "PROMPTING") =>
            (pc' = "exited" \/ n_accepted' = n_accepted + 1)]_vars
    /\ (pc = "PROMPTING") ~>
            \/ AbortedAtPrompt
            \/ resolution = "RESOLVED" /\ n_accepted = NonFirstMembers

C10_Witness ==
    /\ resolution = "RESOLVED" /\ n_accepted = 2 /\ n_accepted = NonFirstMembers
    /\ line # new_id

====
